---- MODULE Spec2Model ----
(***************************************************************************)
(* Model of src/app.py: an in-memory document/context store behind HTTP    *)
(* handlers, a pending/failed task queue, a sliding-window rate limiter    *)
(* and the background task processor that drains the queue.                *)
(*                                                                         *)
(* Scheduling: asyncio runs one coroutine at a time and switches only at   *)
(* an await.  No handler awaits, and the processor awaits only in its two  *)
(* sleeps, so every handler and every loop iteration is one atomic action. *)
(*                                                                         *)
(* Python dicts are modelled as functions whose DOMAIN is the set of keys  *)
(* present; lists are sequences.  Fields that no handler ever reads or     *)
(* writes after construction (Document.created_at, Context.created_at,     *)
(* Context.description) are left out of the records.                       *)
(***************************************************************************)
EXTENDS Integers, Sequences, FiniteSets, TLC

\* ---------------------------------------------------------------- bounds
\* Requests that add to the queue's lists or write a record (Create Document,
\* Create Context, Update Context) served in one behaviour.  Reads, deletes
\* and retry add nothing new and are not counted.
MaxRequests == 2
\* The clock stops advancing here (seconds).
MaxTime == 60
\* RateLimiter(requests_per_minute=60) is the program's default; the model
\* runs the limiter with a small capacity so that the window fills.
requests_per_minute == 1

\* ------------------------------------------------------ program constants
\* current_time - t < 60
Window == 60
\* await asyncio.sleep(5)
Backoff == 5

\* ----------------------------------------------------------- input domains
DocIds == {"d1", "d2"}
CtxIds == {"c1", "c2"}
Contents == {"x", "y"}
Metadatas == {"m"}
Names == {"n"}
\* Steps of the clock: a whole window at a time while the whole program runs,
\* one backoff at a time while the limiter is exercised alone.
TickSteps == {60}
FineSteps == {5}

RECURSIVE SeqsUpTo(_, _)
SeqsUpTo(S, n) ==
    IF n = 0 THEN {<<>>}
    ELSE LET shorter == SeqsUpTo(S, n - 1)
         IN  shorter \cup {Append(s, x) : s \in {t \in shorter : Len(t) = n - 1}, x \in S}

\* The documents lists a client submits: every list of at most two ids,
\* duplicates included.
DocLists == SeqsUpTo(DocIds, 2)

\* class Document / class Context as the handlers receive them (validated
\* request bodies; the id is the client's or the generated default).
Documents == [id : DocIds, content : Contents, metadata : Metadatas]
ContextsAt(t) == [id : CtxIds, name : Names, documents : DocLists, updated_at : {t}]

VARIABLES
    documents_db,    \* documents_db: id -> Document
    contexts_db,     \* contexts_db: id -> Context
    tasks,           \* task_queue.tasks
    failed_tasks,    \* task_queue.failed_tasks
    request_times,   \* rate_limiter.request_times
    now,             \* the wall clock: time.time() / datetime.now()
    pc,              \* where process_task_queue stands: "loop" or "backoff"
    wake,            \* the instant the processor's current sleep ends
    response,        \* what the last handler (or limiter call) returned
    requests,        \* counted client requests served so far
    admissions,      \* history: every instant at which is_rate_limited() has admitted
    running          \* the handler that has started and not yet returned, and where it stands

vars == <<documents_db, contexts_db, tasks, failed_tasks, request_times, now,
          pc, wake, response, requests, admissions, running>>

store == <<documents_db, contexts_db>>
queue == <<tasks, failed_tasks>>
limiter == <<request_times, admissions>>
processor == <<pc, wake>>

\* ------------------------------------------------------------ Python helpers
\* d.get(k): the value, or None when the key is absent
None == "None"
Get(d, k) == IF k \in DOMAIN d THEN d[k] ELSE None

\* Faulty variant (C18): a key already present keeps its value.
PutKept(d, k, v) == [x \in DOMAIN d \cup {k} |-> IF x \in DOMAIN d THEN d[x] ELSE v]

\* d[k] = v on a dict
Put(d, k, v) == [x \in DOMAIN d \cup {k} |-> IF x = k THEN v ELSE d[x]]

\* Faulty variant (C13): the key is left in the dict.
DelKept(d, k) == d

\* del d[k]
Del(d, k) == [x \in DOMAIN d \ {k} |-> d[x]]

\* x in list
In(x, s) == \E i \in 1..Len(s) : s[i] = x

\* list.remove(x): drops the first occurrence of x (x is known to be in s)
Remove(s, x) ==
    LET i == CHOOSE j \in 1..Len(s) : s[j] = x /\ \A k \in 1..(j - 1) : s[k] # x
    IN  SubSeq(s, 1, i - 1) \o SubSeq(s, i + 1, Len(s))

\* ------------------------------------------------------------- RateLimiter
\* Faulty variant (C2): the comparison keeps an instant exactly 60 s old.
PurgedInclusive(times, current_time) == SelectSeq(times, LAMBDA t : current_time - t <= Window)

\* [t for t in self.request_times if current_time - t < 60]
Purged(times, current_time) == SelectSeq(times, LAMBDA t : current_time - t < Window)

\* Faulty variant (C16): the limiter admits every call.
LimitedNever(times, current_time) == FALSE

\* the value is_rate_limited() returns at current_time
Limited(times, current_time) == Len(Purged(times, current_time)) >= requests_per_minute

\* self.request_times after is_rate_limited() has run at current_time
TimesAfter(times, current_time) ==
    IF Limited(times, current_time)
    THEN Purged(times, current_time)
    ELSE Append(Purged(times, current_time), current_time)

Init ==
    /\ documents_db = <<>>
    /\ contexts_db = <<>>
    /\ tasks = <<>>
    /\ failed_tasks = <<>>
    /\ request_times = <<>>
    /\ now = 0
    /\ pc = "loop"
    /\ wake = 0
    /\ response = [op |-> "none"]
    /\ requests = 0
    /\ admissions = <<>>
    /\ running = [op |-> "none"]

\* Time passes: d seconds.
Tick(d) ==
    /\ now + d <= MaxTime
    /\ now' = now + d
    /\ UNCHANGED <<store, queue, limiter, processor, response, requests>>
    /\ UNCHANGED running

\* One call of rate_limiter.is_rate_limited() on its own.
is_rate_limited ==
    /\ request_times' = TimesAfter(request_times, now)
    /\ admissions' = IF Limited(request_times, now) THEN admissions ELSE Append(admissions, now)
    /\ response' = [op |-> "is_rate_limited", returned |-> Limited(request_times, now)]
    /\ UNCHANGED <<store, queue, now, processor, requests>>
    /\ UNCHANGED running

\* --------------------------------------------------------- pydantic models
\* Document(**data): content is required; metadata defaults to {}.
\* The call raises when data is None (the task has no "data" key) or when a
\* required field is missing.
DocumentOk(task) == "data" \in DOMAIN task /\ "content" \in DOMAIN task.data

Document(data) ==
    [id |-> data.id, content |-> data.content,
     metadata |-> IF "metadata" \in DOMAIN data THEN data.metadata ELSE "{}"]

\* Context(**data): name is required; documents defaults to [].
ContextOk(task) == "data" \in DOMAIN task /\ "name" \in DOMAIN task.data

Context(data) ==
    [id |-> data.id, name |-> data.name,
     documents |-> IF "documents" \in DOMAIN data THEN data.documents ELSE <<>>,
     updated_at |-> data.updated_at]

\* str(e) of the exception the constructor call raises on task
ConstructError(task) ==
    IF "data" \in DOMAIN task
    THEN "1 validation error: field required"
    ELSE "argument after ** must be a mapping, not NoneType"

\* ------------------------------------------------------------- the handlers
\* Faulty variant (C10): the intent is put at the head of the list.
EnqueuedFirst(pending, intent) == <<intent>> \o pending

\* task_queue.tasks.append(intent)
Enqueued(pending, intent) == Append(pending, intent)

\* POST /documents
create_document(document) ==
    /\ requests < MaxRequests
    /\ requests' = requests + 1
    /\ tasks' = Enqueued(tasks, [type |-> "create_document", data |-> document])
    /\ response' = [op |-> "create_document", status |-> 200, body |-> document]
    /\ UNCHANGED <<store, failed_tasks, limiter, now, processor>>
    /\ UNCHANGED running

\* GET /documents/{document_id}
get_document(document_id) ==
    /\ response' = IF document_id \notin DOMAIN documents_db
                   THEN [op |-> "get_document", status |-> 404, body |-> "Document not found"]
                   ELSE [op |-> "get_document", status |-> 200, body |-> documents_db[document_id]]
    /\ UNCHANGED <<store, queue, limiter, now, processor, requests>>
    /\ UNCHANGED running

\* The loop of delete_document over one Context: the id is removed once, by
\* list.remove, when the list holds it, and updated_at is then set.
StripDocument(context, document_id, t) ==
    IF In(document_id, context.documents)
    THEN [context EXCEPT !.documents = Remove(context.documents, document_id),
                         !.updated_at = t]
    ELSE context

\* contexts_db after the loop of delete_document
Cascade(contexts, document_id, t) ==
    [context_id \in DOMAIN contexts |-> StripDocument(contexts[context_id], document_id, t)]

\* DELETE /documents/{document_id}
delete_document(document_id) ==
    /\ IF document_id \notin DOMAIN documents_db
       THEN /\ response' = [op |-> "delete_document", status |-> 404, body |-> "Document not found"]
            /\ UNCHANGED store
       ELSE /\ contexts_db' = Cascade(contexts_db, document_id, now)
            /\ documents_db' = Del(documents_db, document_id)
            /\ response' = [op |-> "delete_document", status |-> 200,
                            body |-> "Document deleted successfully"]
    /\ UNCHANGED <<queue, limiter, now, processor, requests>>
    /\ UNCHANGED running

\* POST /contexts
create_context(context) ==
    /\ requests < MaxRequests
    /\ requests' = requests + 1
    /\ tasks' = Enqueued(tasks, [type |-> "create_context", data |-> context])
    /\ response' = [op |-> "create_context", status |-> 200, body |-> context]
    /\ UNCHANGED <<store, failed_tasks, limiter, now, processor>>
    /\ UNCHANGED running

\* GET /contexts/{context_id}
get_context(context_id) ==
    /\ response' = IF context_id \notin DOMAIN contexts_db
                   THEN [op |-> "get_context", status |-> 404, body |-> "Context not found"]
                   ELSE [op |-> "get_context", status |-> 200, body |-> contexts_db[context_id]]
    /\ UNCHANGED <<store, queue, limiter, now, processor, requests>>
    /\ UNCHANGED running

\* The failed-list entry update_context records for one unresolved id
ValidationFailure(context_id, doc_id) ==
    [type |-> "update_context", context_id |-> context_id,
     error |-> "Document " \o doc_id \o " does not exist"]

\* The validation loop of update_context.  A Python for statement over a
\* list reads position i, then i + 1, ... until the position is past the
\* end of the list as it is at that moment; the body removes from the very
\* list being iterated.  i counts the positions already read.
RECURSIVE ValidateLoop(_, _, _, _, _)
ValidateLoop(documents, i, failures, context_id, known) ==
    IF i >= Len(documents)
    THEN [documents |-> documents, failures |-> failures]
    ELSE LET doc_id == documents[i + 1]
         IN  IF doc_id \notin known
             THEN ValidateLoop(Remove(documents, doc_id), i + 1,
                               Append(failures, ValidationFailure(context_id, doc_id)),
                               context_id, known)
             ELSE ValidateLoop(documents, i + 1, failures, context_id, known)

\* Faulty variant (C14): the existence check is missing and the Context is
\* validated and stored whether or not context_id is known.
update_contextUnchecked(context_id, updated_context) ==
    /\ requests < MaxRequests
    /\ requests' = requests + 1
    /\ LET validated == ValidateLoop(updated_context.documents, 0, <<>>, context_id,
                                     DOMAIN documents_db)
           committed == [updated_context EXCEPT !.documents = validated.documents,
                                                !.updated_at = now]
       IN  /\ failed_tasks' = failed_tasks \o validated.failures
           /\ contexts_db' = Put(contexts_db, context_id, committed)
           /\ response' = [op |-> "update_context", status |-> 200, body |-> committed]
    /\ UNCHANGED <<documents_db, tasks, limiter, now, processor>>
    /\ UNCHANGED running

\* PUT /contexts/{context_id}
update_context(context_id, updated_context) ==
    /\ requests < MaxRequests
    /\ requests' = requests + 1
    /\ IF context_id \notin DOMAIN contexts_db
       THEN /\ response' = [op |-> "update_context", status |-> 404, body |-> "Context not found"]
            /\ UNCHANGED <<contexts_db, failed_tasks>>
       ELSE LET validated == ValidateLoop(updated_context.documents, 0, <<>>, context_id,
                                          DOMAIN documents_db)
                committed == [updated_context EXCEPT !.documents = validated.documents,
                                                     !.updated_at = now]
            IN  /\ failed_tasks' = failed_tasks \o validated.failures
                /\ contexts_db' = Put(contexts_db, context_id, committed)
                /\ response' = [op |-> "update_context", status |-> 200, body |-> committed]
    /\ UNCHANGED <<documents_db, tasks, limiter, now, processor>>
    /\ UNCHANGED running

\* DELETE /contexts/{context_id}
delete_context(context_id) ==
    /\ IF context_id \notin DOMAIN contexts_db
       THEN /\ response' = [op |-> "delete_context", status |-> 404, body |-> "Context not found"]
            /\ UNCHANGED contexts_db
       ELSE /\ contexts_db' = Del(contexts_db, context_id)
            /\ response' = [op |-> "delete_context", status |-> 200,
                            body |-> "Context deleted successfully"]
    /\ UNCHANGED <<documents_db, queue, limiter, now, processor, requests>>
    /\ UNCHANGED running

\* One element of the content list get_context_content builds
ContentEntry(documents, doc_id) ==
    [id |-> doc_id, content |-> documents[doc_id].content,
     metadata |-> documents[doc_id].metadata]

\* Faulty variant (C12): an id already listed is not listed again.
RECURSIVE ContentLoopOnce(_, _, _, _)
ContentLoopOnce(ids, i, content, documents) ==
    IF i >= Len(ids)
    THEN content
    ELSE LET doc_id == ids[i + 1]
         IN  IF doc_id \in DOMAIN documents /\ ~In(ContentEntry(documents, doc_id), content)
             THEN ContentLoopOnce(ids, i + 1, Append(content, ContentEntry(documents, doc_id)),
                                  documents)
             ELSE ContentLoopOnce(ids, i + 1, content, documents)

\* The loop of get_context_content: content after the entries of ids past
\* position i have been visited; an id absent from documents is passed over.
RECURSIVE ContentLoop(_, _, _, _)
ContentLoop(ids, i, content, documents) ==
    IF i >= Len(ids)
    THEN content
    ELSE LET doc_id == ids[i + 1]
         IN  IF doc_id \in DOMAIN documents
             THEN ContentLoop(ids, i + 1, Append(content, ContentEntry(documents, doc_id)),
                              documents)
             ELSE ContentLoop(ids, i + 1, content, documents)

\* GET /contexts/{context_id}/content
get_context_content(context_id) ==
    /\ response' =
          IF context_id \notin DOMAIN contexts_db
          THEN [op |-> "get_context_content", status |-> 404, body |-> "Context not found"]
          ELSE [op |-> "get_context_content", status |-> 200,
                body |-> [context_id |-> context_id,
                          name |-> contexts_db[context_id].name,
                          documents |-> ContentLoop(contexts_db[context_id].documents, 0, <<>>,
                                                    documents_db)]]
    /\ UNCHANGED <<store, queue, limiter, now, processor, requests>>
    /\ UNCHANGED running

\* Faulty variant (C9): the early return is never taken.
NothingFailedNever(failed) == FALSE

\* if not task_queue.failed_tasks
NothingFailed(failed) == failed = <<>>

\* Faulty variant (C8): the failed tasks go to the front of the queue.
ExtendedFront(pending, failed) == failed \o pending

\* task_queue.tasks.extend(task_queue.failed_tasks)
Extended(pending, failed) == pending \o failed

\* The count retry_failed_tasks puts in its message: len(task_queue.tasks),
\* read after the extend.
MovedCount(pending, failed) == Len(Extended(pending, failed))

\* POST /tasks/retry
retry_failed_tasks ==
    /\ IF NothingFailed(failed_tasks)
       THEN /\ response' = [op |-> "retry_failed_tasks", status |-> 200,
                            body |-> [message |-> "No failed tasks to retry"]]
            /\ UNCHANGED queue
       ELSE /\ tasks' = Extended(tasks, failed_tasks)
            /\ failed_tasks' = <<>>
            /\ response' = [op |-> "retry_failed_tasks", status |-> 200,
                            body |-> [message |-> "Moved tasks back to the queue",
                                      count |-> MovedCount(tasks, failed_tasks)]]
    /\ UNCHANGED <<store, limiter, now, processor, requests>>
    /\ UNCHANGED running

\* ------------------------------------------------------------ the processor
\* Faulty variant (C1): pop() without the index takes the newest task.
PoppedNewest(pending) == pending[Len(pending)]

\* task_queue.tasks.pop(0): the task taken and the list left
Popped(pending) == Head(pending)
AfterPop(pending) == Tail(pending)

\* Faulty variant (C6): the task is moved without its error.
AnnotatedNot(task, error) == task

\* task["error"] = str(e)
Annotated(task, error) == Put(task, "error", error)

\* documents_db after the try block has run on task
DocumentsAfter(documents, task) ==
    IF Get(task, "type") = "create_document" /\ DocumentOk(task)
    THEN Put(documents, Document(task.data).id, Document(task.data))
    ELSE documents

\* contexts_db after the try block has run on task
ContextsAfter(contexts, task) ==
    IF Get(task, "type") = "create_context" /\ ContextOk(task)
    THEN Put(contexts, Context(task.data).id, Context(task.data))
    ELSE contexts

\* whether the try block raises on task: only the two constructors can
Raises(task) ==
    \/ Get(task, "type") = "create_document" /\ ~DocumentOk(task)
    \/ Get(task, "type") = "create_context" /\ ~ContextOk(task)

\* task_queue.failed_tasks after the try/except has run on task
FailedAfter(failed, task) ==
    IF Raises(task) THEN Append(failed, Annotated(task, ConstructError(task))) ELSE failed

\* The sleep(0.1) at the bottom of the loop is shorter than the clock's
\* resolution and nothing is held across it: an iteration that reaches it
\* ends with the processor back at the top of the loop, and any handler may
\* run before the next iteration.

\* One iteration with an empty queue: nothing but the sleep at the bottom.
ProcessIdle ==
    /\ pc = "loop"
    /\ tasks = <<>>
    /\ UNCHANGED vars

\* One iteration in which the limiter rejects: sleep(5), then continue.
ProcessThrottled ==
    /\ pc = "loop"
    /\ tasks # <<>>
    /\ Limited(request_times, now)
    /\ request_times' = TimesAfter(request_times, now)
    /\ pc' = "backoff"
    /\ wake' = now + Backoff
    /\ UNCHANGED <<store, queue, admissions, now, response, requests>>
    /\ UNCHANGED running

\* One iteration in which the limiter admits: pop the head and apply it.
ProcessApply ==
    /\ pc = "loop"
    /\ tasks # <<>>
    /\ ~Limited(request_times, now)
    /\ request_times' = TimesAfter(request_times, now)
    /\ LET task == Popped(tasks)
       IN  /\ tasks' = AfterPop(tasks)
           /\ documents_db' = DocumentsAfter(documents_db, task)
           /\ contexts_db' = ContextsAfter(contexts_db, task)
           /\ failed_tasks' = FailedAfter(failed_tasks, task)
    /\ admissions' = Append(admissions, now)
    /\ UNCHANGED <<processor, now, response, requests>>
    /\ UNCHANGED running

\* The sleep(5) ends and the loop continues.
Wake ==
    /\ pc = "backoff"
    /\ now >= wake
    /\ pc' = "loop"
    /\ wake' = 0
    /\ UNCHANGED <<store, queue, limiter, now, response, requests>>
    /\ UNCHANGED running

\* ------------------------------------- the handlers, statement by statement
\* asyncio switches to another coroutine only where the running one awaits.
\* Awaits(op) tells whether handler op awaits between its first statement and
\* its return: the bodies of delete_document, update_context and
\* retry_failed_tasks contain no await.
\* Faulty variant (C19): the handlers await in mid-body.
AwaitsInBody(op) == op # "none"

Awaits(op) == FALSE

\* The event loop may run another coroutine: no handler is in progress, or
\* the one in progress is suspended at an await.
Free == running.op = "none" \/ Awaits(running.op)

\* delete_document up to the for statement
delete_document_begin(document_id) ==
    /\ running.op = "none"
    /\ IF document_id \notin DOMAIN documents_db
       THEN /\ response' = [op |-> "delete_document", status |-> 404, body |-> "Document not found"]
            /\ UNCHANGED running
       ELSE /\ running' = [op |-> "delete_document", document_id |-> document_id, visited |-> {}]
            /\ UNCHANGED response
    /\ UNCHANGED <<store, queue, limiter, now, processor, requests>>

\* one iteration of the for statement of delete_document
delete_document_visit ==
    /\ running.op = "delete_document"
    /\ \E context_id \in DOMAIN contexts_db \ running.visited :
          /\ contexts_db' = [contexts_db EXCEPT
                                ![context_id] = StripDocument(@, running.document_id, now)]
          /\ running' = [running EXCEPT !.visited = @ \cup {context_id}]
    /\ UNCHANGED <<documents_db, queue, limiter, now, processor, response, requests>>

\* delete_document after the for statement
delete_document_end ==
    /\ running.op = "delete_document"
    /\ DOMAIN contexts_db \subseteq running.visited
    /\ documents_db' = Del(documents_db, running.document_id)
    /\ response' = [op |-> "delete_document", status |-> 200,
                    body |-> "Document deleted successfully"]
    /\ running' = [op |-> "none"]
    /\ UNCHANGED <<contexts_db, queue, limiter, now, processor, requests>>

\* update_context up to the for statement
update_context_begin(context_id, updated_context) ==
    /\ running.op = "none"
    /\ requests < MaxRequests
    /\ requests' = requests + 1
    /\ IF context_id \notin DOMAIN contexts_db
       THEN /\ response' = [op |-> "update_context", status |-> 404, body |-> "Context not found"]
            /\ UNCHANGED running
       ELSE /\ running' = [op |-> "update_context", context_id |-> context_id,
                           updated_context |-> updated_context, i |-> 0]
            /\ UNCHANGED response
    /\ UNCHANGED <<store, queue, limiter, now, processor>>

\* one iteration of the for statement of update_context, at position i
update_context_visit ==
    /\ running.op = "update_context"
    /\ running.i < Len(running.updated_context.documents)
    /\ LET doc_id == running.updated_context.documents[running.i + 1]
       IN  IF doc_id \notin DOMAIN documents_db
           THEN /\ failed_tasks' = Append(failed_tasks,
                                          ValidationFailure(running.context_id, doc_id))
                /\ running' = [running EXCEPT
                                  !.updated_context.documents = Remove(@, doc_id),
                                  !.i = @ + 1]
           ELSE /\ running' = [running EXCEPT !.i = @ + 1]
                /\ UNCHANGED failed_tasks
    /\ UNCHANGED <<store, tasks, limiter, now, processor, response, requests>>

\* update_context after the for statement
update_context_end ==
    /\ running.op = "update_context"
    /\ running.i >= Len(running.updated_context.documents)
    /\ LET committed == [running.updated_context EXCEPT !.updated_at = now]
       IN  /\ contexts_db' = Put(contexts_db, running.context_id, committed)
           /\ response' = [op |-> "update_context", status |-> 200, body |-> committed]
    /\ running' = [op |-> "none"]
    /\ UNCHANGED <<documents_db, queue, limiter, now, processor, requests>>

\* retry_failed_tasks up to and including the extend
retry_failed_tasks_begin ==
    /\ running.op = "none"
    /\ IF NothingFailed(failed_tasks)
       THEN /\ response' = [op |-> "retry_failed_tasks", status |-> 200,
                            body |-> [message |-> "No failed tasks to retry"]]
            /\ UNCHANGED <<tasks, running>>
       ELSE /\ tasks' = Extended(tasks, failed_tasks)
            /\ running' = [op |-> "retry_failed_tasks"]
            /\ UNCHANGED response
    /\ UNCHANGED <<store, failed_tasks, limiter, now, processor, requests>>

\* retry_failed_tasks after the extend
retry_failed_tasks_end ==
    /\ running.op = "retry_failed_tasks"
    /\ failed_tasks' = <<>>
    /\ response' = [op |-> "retry_failed_tasks", status |-> 200,
                    body |-> [message |-> "Moved tasks back to the queue",
                              count |-> Len(tasks)]]
    /\ running' = [op |-> "none"]
    /\ UNCHANGED <<store, tasks, limiter, now, processor, requests>>

\* A step of process_task_queue, when the event loop can give it one.
ProcessorStep == Free /\ (ProcessIdle \/ ProcessThrottled \/ ProcessApply \/ Wake)

\* Another request served from start to return, when the event loop can
\* start one.
OtherRequest ==
    /\ Free
    /\ \/ \E document \in Documents : create_document(document)
       \/ \E context \in ContextsAt(now) : create_context(context)
       \/ \E context_id \in CtxIds : get_context_content(context_id)

\* ------------------------------------------------------ the specifications
Next ==
    \/ \E d \in TickSteps : Tick(d)
    \/ \E document \in Documents : create_document(document)
    \/ \E document_id \in DocIds : get_document(document_id)
    \/ \E document_id \in DocIds : delete_document(document_id)
    \/ \E context \in ContextsAt(now) : create_context(context)
    \/ \E context_id \in CtxIds : get_context(context_id)
    \/ \E context_id \in CtxIds, updated_context \in ContextsAt(now) :
          update_context(context_id, updated_context)
    \/ \E context_id \in CtxIds : delete_context(context_id)
    \/ \E context_id \in CtxIds : get_context_content(context_id)
    \/ retry_failed_tasks
    \/ ProcessIdle
    \/ ProcessThrottled
    \/ ProcessApply
    \/ Wake

\* The program as it runs: empty store and queue, any client, the processor.
Spec == Init /\ [][Next]_vars

\* The processor started on a backlog.  task_queue.tasks is a
\* List[Dict[str, Any]]: the handlers only ever append well-formed create
\* intents, but the processor takes whatever dicts the list holds, and its
\* except branch is there for the ones the constructors reject.  A backlog
\* entry is a payload without its required field, an intent without "data",
\* or a well-formed create_document intent; a backlog holds at most two
\* entries and each counts as one request already served.  The empty
\* backlog gives every behaviour of Spec.
MalformedIntents ==
    {[type |-> "create_document", data |-> [id |-> "d1", metadata |-> "m"]],
     [type |-> "create_context", data |-> [id |-> "c1", documents |-> <<>>, updated_at |-> 0]],
     [type |-> "create_document"]}

BacklogIntents ==
    MalformedIntents
    \cup {[type |-> "create_document", data |-> d] : d \in {x \in Documents : x.content = "x"}}

InitBacklog ==
    /\ documents_db = <<>>
    /\ contexts_db = <<>>
    /\ tasks \in SeqsUpTo(BacklogIntents, 2)
    /\ failed_tasks = <<>>
    /\ request_times = <<>>
    /\ now = 0
    /\ pc = "loop"
    /\ wake = 0
    /\ response = [op |-> "none"]
    /\ requests = Len(tasks)
    /\ admissions = <<>>
    /\ running = [op |-> "none"]

SpecBacklog == InitBacklog /\ [][Next]_vars

\* The program after its first validation failure: Create Context c1 was
\* accepted and applied at time 0, and update_context("c1", documents
\* ["d1"]), d1 unknown, has just recorded its failure.  Spec reaches this
\* state with its two counted requests; the count starts again here so that
\* further requests can follow.
InitAfterFailure ==
    /\ documents_db = <<>>
    /\ contexts_db = [c \in {"c1"} |->
                         [id |-> "c1", name |-> "n", documents |-> <<>>, updated_at |-> 0]]
    /\ tasks = <<>>
    /\ failed_tasks = <<ValidationFailure("c1", "d1")>>
    /\ request_times = <<0>>
    /\ now = 0
    /\ pc = "loop"
    /\ wake = 0
    /\ response = [op |-> "update_context", status |-> 200,
                   body |-> [id |-> "c1", name |-> "n", documents |-> <<>>, updated_at |-> 0]]
    /\ requests = 0
    /\ admissions = <<0>>
    /\ running = [op |-> "none"]

SpecAfterFailure == InitAfterFailure /\ [][Next]_vars

\* The program with delete_document, update_context and retry_failed_tasks
\* taken one statement at a time and the event loop choosing who runs next.
\* The clock's step is far longer than a handler, so time passes between
\* handlers only.
NextSteps ==
    \/ \E d \in TickSteps : running.op = "none" /\ Tick(d)
    \/ ProcessorStep
    \/ OtherRequest
    \/ \E document_id \in DocIds : delete_document_begin(document_id)
    \/ delete_document_visit
    \/ delete_document_end
    \/ \E context_id \in CtxIds, updated_context \in ContextsAt(now) :
          update_context_begin(context_id, updated_context)
    \/ update_context_visit
    \/ update_context_end
    \/ retry_failed_tasks_begin
    \/ retry_failed_tasks_end

SpecSteps == Init /\ [][NextSteps]_vars

\* The program with a processor that keeps running and a clock that keeps
\* advancing (up to MaxTime): the task created at startup is scheduled again
\* after each of its sleeps, for as long as the process lives.
Fairness ==
    /\ WF_vars(ProcessThrottled \/ ProcessApply \/ Wake)
    /\ WF_vars(\E d \in TickSteps : Tick(d))

SpecLive == Init /\ [][Next]_vars /\ Fairness

\* The limiter alone, called at any instant.
NextLimiter ==
    \/ \E d \in FineSteps : Tick(d)
    \/ is_rate_limited

SpecLimiter == Init /\ [][NextLimiter]_vars

\* =================================================================== claims
\* What applying intent to the store must leave behind, read off the intent
\* itself: the record built from its payload, under the payload's id.
Committed(intent) ==
    /\ intent.type = "create_document" =>
          /\ intent.data.id \in DOMAIN documents_db'
          /\ documents_db'[intent.data.id] =
                [id |-> intent.data.id, content |-> intent.data.content,
                 metadata |-> intent.data.metadata]
          /\ contexts_db' = contexts_db
    /\ intent.type = "create_context" =>
          /\ intent.data.id \in DOMAIN contexts_db'
          /\ contexts_db'[intent.data.id] =
                [id |-> intent.data.id, name |-> intent.data.name,
                 documents |-> intent.data.documents,
                 updated_at |-> intent.data.updated_at]
          /\ documents_db' = documents_db

\* A well-formed create intent, as the two Create handlers enqueue them.
WellFormed(intent) ==
    /\ "data" \in DOMAIN intent
    /\ \/ intent.type = "create_document" /\ "content" \in DOMAIN intent.data
       \/ intent.type = "create_context" /\ "name" \in DOMAIN intent.data

\* C1 (FIFO).  Leaving retry aside, every step either leaves the pending
\* list alone, or appends one intent at its tail and keeps the intents
\* already there in place, or removes exactly its head, the oldest intent
\* still pending, and it is that intent the step applies to the store.
\* By induction intents are dequeued and applied in the order enqueued.
C1_FIFO ==
    [][~retry_failed_tasks =>
          \/ tasks' = tasks
          \/ /\ Len(tasks') = Len(tasks) + 1
             /\ SubSeq(tasks', 1, Len(tasks)) = tasks
          \/ /\ tasks # <<>>
             /\ tasks' = Tail(tasks)
             /\ WellFormed(tasks[1]) => Committed(tasks[1])]_vars

\* C1 witness: two contexts were accepted at time 0, the processor's only
\* dequeue happened at time 60 with both pending, one of them is committed
\* and the other is still pending.
C1_Witness ==
    /\ admissions = <<60>>
    /\ Len(tasks) = 1
    /\ tasks[1].type = "create_context"
    /\ tasks[1].data.updated_at = 0
    /\ \E c \in DOMAIN contexts_db : contexts_db[c].updated_at = 0

\* The admitted calls that lie within the 60 seconds preceding instant t.
AdmittedWithin(log, t) == {i \in DOMAIN log : t - log[i] < 60}

\* C2 (RateLimiter sliding window).  The window never holds more than
\* `capacity` instants, and a call is admitted exactly when fewer than
\* `capacity` admitted calls lie within the preceding 60 seconds.
C2_SlidingWindow ==
    /\ [](Len(request_times) <= requests_per_minute)
    /\ [][is_rate_limited =>
             (response'.returned = FALSE
                <=> Cardinality(AdmittedWithin(admissions, now)) < requests_per_minute)]_vars

\* C2 witness: the window was filled, a full window elapsed and a call was
\* admitted again, and the call after that one has just been rejected.
C2_Witness ==
    /\ response.op = "is_rate_limited"
    /\ response.returned = TRUE
    /\ Len(admissions) > requests_per_minute
    /\ Len(request_times) = requests_per_minute
    /\ now - admissions[1] >= 60

\* C3 (cascade delete), as claimed.  After delete_document(id) succeeds
\* the document is gone, no Context's documents holds id any more, every
\* Context that held it has updated_at refreshed and every other Context
\* is unchanged.
C3_CascadeDelete ==
    [][\A id \in DocIds :
          (delete_document(id) /\ id \in DOMAIN documents_db) =>
             /\ id \notin DOMAIN documents_db'
             /\ DOMAIN contexts_db' = DOMAIN contexts_db
             /\ \A c \in DOMAIN contexts_db :
                   /\ ~In(id, contexts_db'[c].documents)
                   /\ IF In(id, contexts_db[c].documents)
                      THEN contexts_db'[c].updated_at = now
                      ELSE contexts_db'[c] = contexts_db[c]]_vars

\* A successful update_context(c, u) step.
Updates(c, u) == update_context(c, u) /\ c \in DOMAIN contexts_db

\* C4 (filter-on-update), as claimed.  After update_context succeeds,
\* every id in the committed Context's documents is present in the Store.
C4_FilterOnUpdate ==
    [][\A c \in CtxIds, u \in ContextsAt(now) :
          Updates(c, u) =>
             \A i \in 1..Len(contexts_db'[c].documents) :
                contexts_db'[c].documents[i] \in DOMAIN documents_db']_vars

\* C5 (validation failures recorded per id), as claimed.  update_context on
\* an existing Context appends one failure record for each submitted entry
\* that does not resolve, commits the Context, and the committed documents
\* are the submitted entries that resolve, in their order.
C5_FailurePerEntry ==
    [][\A c \in CtxIds, u \in ContextsAt(now) :
          Updates(c, u) =>
             LET resolves(d) == d \in DOMAIN documents_db
                 unresolved == SelectSeq(u.documents, LAMBDA d : ~resolves(d))
             IN  /\ Len(failed_tasks') = Len(failed_tasks) + Len(unresolved)
                 /\ SubSeq(failed_tasks', 1, Len(failed_tasks)) = failed_tasks
                 /\ c \in DOMAIN contexts_db'
                 /\ contexts_db'[c].documents = SelectSeq(u.documents, resolves)]_vars

\* A create intent whose payload the constructor rejects.
Malformed(intent) ==
    /\ intent.type \in {"create_document", "create_context"}
    /\ ~WellFormed(intent)

\* A step of the processor that dequeues.
Dequeues == ProcessApply

\* C6 (failure isolation).  When the processor dequeues an intent whose
\* payload cannot be made into a Document or Context, the intent goes to the
\* end of the failed list with a non-empty error, the Store is unchanged,
\* and the processor is back at the top of its loop; after failures a
\* well-formed head is still dequeued and committed, and with intents
\* pending at the top of the loop an iteration is always possible.
C6_FailureIsolation ==
    /\ [][(Dequeues /\ Malformed(tasks[1])) =>
             /\ tasks' = Tail(tasks)
             /\ Len(failed_tasks') = Len(failed_tasks) + 1
             /\ SubSeq(failed_tasks', 1, Len(failed_tasks)) = failed_tasks
             /\ LET moved == failed_tasks'[Len(failed_tasks')]
                IN  /\ "error" \in DOMAIN moved
                    /\ moved.error # ""
                    /\ moved.type = tasks[1].type
                    /\ ("data" \in DOMAIN tasks[1]) =>
                          ("data" \in DOMAIN moved /\ moved.data = tasks[1].data)
             /\ UNCHANGED store
             /\ pc' = "loop"]_vars
    /\ [][(Dequeues /\ failed_tasks # <<>> /\ WellFormed(tasks[1])) =>
             (tasks' = Tail(tasks) /\ Committed(tasks[1]))]_vars
    /\ []((pc = "loop" /\ tasks # <<>>) => ENABLED (ProcessApply \/ ProcessThrottled))

\* C6 witness: the head of a backlog was malformed and has been moved to the
\* failed list with its error, the Store is still empty, and the well-formed
\* intent behind it is now the head, the processor at the top of its loop.
C6_Witness ==
    /\ Len(failed_tasks) = 1
    /\ Malformed(failed_tasks[1])
    /\ "error" \in DOMAIN failed_tasks[1]
    /\ documents_db = <<>>
    /\ contexts_db = <<>>
    /\ Len(tasks) = 1
    /\ WellFormed(tasks[1])
    /\ "error" \notin DOMAIN tasks[1]
    /\ requests = 2
    /\ pc = "loop"

\* An intent whose type is neither create_document nor create_context.
Unrecognized(intent) == intent.type \notin {"create_document", "create_context"}

\* C7 (unrecognized type is a failure), as claimed.  When the processor
\* dequeues an intent of an unrecognized type, the intent is appended to the
\* failed list with an error and the Store is unchanged; and no dequeued
\* intent is dropped: it is committed or the failed list grows by it.
C7_UnrecognizedFails ==
    /\ [][(Dequeues /\ Unrecognized(tasks[1])) =>
             /\ Len(failed_tasks') = Len(failed_tasks) + 1
             /\ "error" \in DOMAIN failed_tasks'[Len(failed_tasks')]
             /\ UNCHANGED store]_vars
    /\ [][Dequeues =>
             \/ WellFormed(tasks[1]) /\ Committed(tasks[1])
             \/ Len(failed_tasks') = Len(failed_tasks) + 1]_vars

\* C8 (retry).  With N >= 1 failed entries, retry puts exactly those N at
\* the end of the pending list in their failure order, behind the entries
\* already pending, which stay in place; the Store is unchanged, the failed
\* list is left empty, and each moved entry still carries its error.
C8_Retry ==
    [][(retry_failed_tasks /\ failed_tasks # <<>>) =>
          /\ Len(tasks') = Len(tasks) + Len(failed_tasks)
          /\ SubSeq(tasks', 1, Len(tasks)) = tasks
          /\ SubSeq(tasks', Len(tasks) + 1, Len(tasks')) = failed_tasks
          /\ \A i \in 1..Len(failed_tasks) :
                /\ "error" \in DOMAIN tasks'[Len(tasks) + i]
                /\ tasks'[Len(tasks) + i].error = failed_tasks[i].error
          /\ failed_tasks' = <<>>
          /\ UNCHANGED store]_vars

\* C8 witness: retry has just moved a failed entry behind an intent that was
\* already pending (only a moved entry carries an error).
C8_Witness ==
    /\ response.op = "retry_failed_tasks"
    /\ "count" \in DOMAIN response.body
    /\ failed_tasks = <<>>
    /\ Len(tasks) >= 2
    /\ "error" \notin DOMAIN tasks[1]
    /\ "error" \in DOMAIN tasks[Len(tasks)]

\* The number of intents a retry response reports as moved: the count in its
\* message, and none when the message is "No failed tasks to retry".
ReportedMoved(r) == IF "count" \in DOMAIN r.body THEN r.body.count ELSE 0

\* C9 (retry idempotence).  Retry with an empty failed list changes neither
\* the pending list, the failed list nor the Store and reports zero moved;
\* and every retry leaves the failed list empty, so a second retry right
\* after a first one is that no-op.
C9_RetryIdempotent ==
    /\ [][(retry_failed_tasks /\ failed_tasks = <<>>) =>
             /\ UNCHANGED <<tasks, failed_tasks, store>>
             /\ ReportedMoved(response') = 0]_vars
    /\ [][retry_failed_tasks => failed_tasks' = <<>>]_vars

\* C9 witness: an earlier retry moved an entry (it is pending, with its
\* error), and the last retry found nothing failed and left it there.
C9_Witness ==
    /\ response.op = "retry_failed_tasks"
    /\ "count" \notin DOMAIN response.body
    /\ failed_tasks = <<>>
    /\ tasks # <<>>
    /\ "error" \in DOMAIN tasks[1]

\* A Create Document or Create Context request being served.
Creates ==
    \/ \E document \in Documents : create_document(document)
    \/ \E context \in ContextsAt(now) : create_context(context)

\* C10 (accepted is not committed).  A Create request appends exactly one
\* intent at the tail of the pending list, carrying the id returned to the
\* caller, and changes neither the Store nor the failed list; an id enters
\* the Store only in the processor step that dequeues a create intent with
\* that id; until then Get and Delete on the id answer NotFound.
C10_AcceptedNotCommitted ==
    /\ [][Creates =>
             /\ Len(tasks') = Len(tasks) + 1
             /\ SubSeq(tasks', 1, Len(tasks)) = tasks
             /\ tasks'[Len(tasks')].data = response'.body
             /\ tasks'[Len(tasks')].data.id = response'.body.id
             /\ tasks'[Len(tasks')].type = response'.op
             /\ UNCHANGED <<store, failed_tasks>>]_vars
    /\ [][\A id \in DocIds :
             (id \notin DOMAIN documents_db /\ id \in DOMAIN documents_db') =>
                /\ Dequeues
                /\ tasks[1].type = "create_document"
                /\ tasks[1].data.id = id]_vars
    /\ [][\A id \in CtxIds :
             (id \notin DOMAIN contexts_db /\ id \in DOMAIN contexts_db') =>
                /\ Dequeues
                /\ tasks[1].type = "create_context"
                /\ tasks[1].data.id = id]_vars
    /\ [][\A id \in DocIds :
             (id \notin DOMAIN documents_db /\ (get_document(id) \/ delete_document(id))) =>
                (response'.status = 404 /\ UNCHANGED <<store, queue>>)]_vars
    /\ [][\A id \in CtxIds :
             (id \notin DOMAIN contexts_db /\ (get_context(id) \/ delete_context(id))) =>
                (response'.status = 404 /\ UNCHANGED <<store, queue>>)]_vars

\* C10 witness: both document ids have been accepted and are pending, in
\* the order accepted, the Store holds neither, and a Get has just answered
\* NotFound.
C10_Witness ==
    /\ Len(tasks) = 2
    /\ tasks[1].type = "create_document"
    /\ tasks[2].type = "create_document"
    /\ tasks[1].data.id # tasks[2].data.id
    /\ documents_db = <<>>
    /\ response.op = "get_document"
    /\ response.status = 404

\* The number of admissions, each of which frees a full window again, that
\* the clock still has room for.
WindowsLeft == (MaxTime - now) \div Window

\* What a dequeue must leave behind for its intent to have ended committed
\* or failed: the record of a well-formed create intent in the Store, or
\* else the intent, with an error, at the end of the failed list.
Settled(intent) ==
    \/ WellFormed(intent) /\ Committed(intent)
    \/ /\ Len(failed_tasks') = Len(failed_tasks) + 1
       /\ "error" \in DOMAIN failed_tasks'[Len(failed_tasks')]
       /\ failed_tasks'[Len(failed_tasks')].type = intent.type

\* The i-th pending intent is dequeued once i more intents have been
\* dequeued; admissions counts the dequeues so far.
EventuallyDequeued ==
    \A i \in 1..MaxRequests, n \in 0..MaxRequests :
       (Len(tasks) >= i /\ Len(admissions) = n /\ WindowsLeft >= i)
          ~> (Len(admissions) >= n + i)

\* The loop goes on: the processor is always at the top of its loop or in a
\* backoff that ends, and at the top of the loop with intents pending an
\* iteration is always possible.
NeverTerminates ==
    /\ [](pc \in {"loop", "backoff"})
    /\ []((pc = "loop" /\ tasks # <<>>) => ENABLED (ProcessThrottled \/ ProcessApply))
    /\ (pc = "backoff" /\ WindowsLeft >= 1) ~> (pc = "loop")

\* C11 (progress), as claimed.  The processor's loop never terminates, and
\* with the processor weakly fair and time advancing every pending intent is
\* eventually dequeued, while the clock leaves room for the admissions ahead
\* of it, and its dequeue leaves it committed to the Store or in the failed
\* list.
C11_Progress ==
    /\ NeverTerminates
    /\ EventuallyDequeued
    /\ [][Dequeues => Settled(tasks[1])]_vars

\* A successful get_context_content(c) step.
Joins(c) == get_context_content(c) /\ c \in DOMAIN contexts_db

\* C12 (best-effort join).  For an existing Context, get_context_content
\* answers without an error, with exactly one entry {id, content, metadata}
\* for each entry of the Context's documents that resolves in the Store, in
\* the order of that sequence and as often as the id occurs in it; entries
\* that do not resolve are left out; the Store and the queue are unchanged.
C12_BestEffortJoin ==
    [][\A c \in CtxIds :
          Joins(c) =>
             LET resolves(d) == d \in DOMAIN documents_db
                 resolved == SelectSeq(contexts_db[c].documents, resolves)
                 listed == response'.body.documents
             IN  /\ response'.status = 200
                 /\ response'.body.context_id = c
                 /\ Len(listed) = Len(resolved)
                 /\ \A i \in 1..Len(listed) :
                       listed[i] = [id |-> resolved[i],
                                    content |-> documents_db[resolved[i]].content,
                                    metadata |-> documents_db[resolved[i]].metadata]
                 /\ UNCHANGED <<store, queue>>]_vars

\* C12 witness: the Context read lists an id that is not in the Store and,
\* after it, one that is; the answer holds the second one only.
C12_Witness ==
    /\ response.op = "get_context_content"
    /\ response.status = 200
    /\ response.body.context_id \in DOMAIN contexts_db
    /\ LET ids == contexts_db[response.body.context_id].documents
       IN  /\ Len(ids) = 2
           /\ ids[1] \notin DOMAIN documents_db
           /\ ids[2] \in DOMAIN documents_db
           /\ Len(response.body.documents) = 1
           /\ response.body.documents[1].id = ids[2]

\* A successful delete_document(id) step.
Deletes(id) == delete_document(id) /\ id \in DOMAIN documents_db

\* C13 (delete then read).  In the state right after delete_document(D)
\* succeeds, every Context that existed before the delete is still there,
\* so get_context on it succeeds, and the content list get_context_content
\* builds for it in that state has no entry with id D.
C13_DeleteThenRead ==
    [][\A D \in DocIds :
          Deletes(D) =>
             \A C \in DOMAIN contexts_db :
                /\ C \in DOMAIN contexts_db'
                /\ LET content == ContentLoop(contexts_db'[C].documents, 0, <<>>, documents_db')
                   IN  \A i \in 1..Len(content) : content[i].id # D]_vars

\* C13 witness: a delete has just succeeded at time 60 and refreshed a
\* Context, which is still stored and still lists an id absent from the
\* Store; the join over it is empty.
C13_Witness ==
    /\ response.op = "delete_document"
    /\ response.status = 200
    /\ \E C \in DOMAIN contexts_db :
          /\ contexts_db[C].updated_at = now
          /\ now = 60
          /\ contexts_db[C].documents # <<>>
          /\ \A i \in 1..Len(contexts_db[C].documents) :
                contexts_db[C].documents[i] \notin DOMAIN documents_db
          /\ ContentLoop(contexts_db[C].documents, 0, <<>>, documents_db) = <<>>

\* C14 (NotFound leaves the state unchanged).  get_document and
\* delete_document on an id absent from documents_db, and get_context,
\* update_context, delete_context and get_context_content on an id absent
\* from contexts_db, answer 404 and leave the documents, the contexts, the
\* pending list and the failed list as they were; update_context on a
\* missing Context records no validation failure whatever it submits.
C14_NotFoundUnchanged ==
    /\ [][\A id \in DocIds :
             (id \notin DOMAIN documents_db /\ (get_document(id) \/ delete_document(id))) =>
                /\ response'.status = 404
                /\ response'.body = "Document not found"
                /\ UNCHANGED <<documents_db, contexts_db, tasks, failed_tasks>>]_vars
    /\ [][\A id \in CtxIds :
             (id \notin DOMAIN contexts_db
                /\ \/ get_context(id)
                   \/ delete_context(id)
                   \/ get_context_content(id)
                   \/ \E u \in ContextsAt(now) : update_context(id, u)) =>
                /\ response'.status = 404
                /\ response'.body = "Context not found"
                /\ UNCHANGED <<documents_db, contexts_db, tasks, failed_tasks>>]_vars

\* C14 witness: with an intent pending and nothing stored, an update_context
\* (every list it can submit is unresolved or empty) has just answered 404;
\* the intent is still pending and the failed list is empty.
C14_Witness ==
    /\ response.op = "update_context"
    /\ response.status = 404
    /\ documents_db = <<>>
    /\ contexts_db = <<>>
    /\ Len(tasks) = 1
    /\ failed_tasks = <<>>
    /\ requests = 2

\* C15 (pending intents are well-typed), as claimed.  In every reachable
\* state every entry of the pending list is a create_document or
\* create_context intent that carries a payload.
C15_PendingWellTyped ==
    \A i \in 1..Len(tasks) :
       /\ tasks[i].type \in {"create_document", "create_context"}
       /\ "data" \in DOMAIN tasks[i]

\* The dequeues (one per admission of the processor) that fall in the 60
\* seconds starting at instant t.
DequeuedFrom(log, t) == {i \in DOMAIN log : log[i] >= t /\ log[i] - t < 60}

\* C16 (admission gates every dequeue).  The pending list gets shorter only
\* in a step that starts with intents pending, in which the limiter admits
\* and exactly the head is removed; every admission comes with exactly one
\* such dequeue; while the pending list is empty the limiter is not called
\* and its window stays as it is; an iteration in which the limiter rejects
\* changes neither the pending list, the failed list, the Store nor the
\* window; and no 60 seconds hold more than `capacity` dequeues.
C16_AdmissionGates ==
    /\ [][Len(tasks') < Len(tasks) =>
             /\ tasks # <<>>
             /\ ~Limited(request_times, now)
             /\ admissions' = Append(admissions, now)
             /\ tasks' = Tail(tasks)]_vars
    /\ [][admissions' # admissions =>
             /\ admissions' = Append(admissions, now)
             /\ tasks # <<>>
             /\ tasks' = Tail(tasks)]_vars
    /\ [][tasks = <<>> =>
             /\ ~(ProcessThrottled \/ ProcessApply)
             /\ UNCHANGED <<request_times, admissions>>]_vars
    /\ [][ProcessThrottled =>
             /\ tasks # <<>>
             /\ UNCHANGED <<tasks, failed_tasks, documents_db, contexts_db, request_times>>]_vars
    /\ [](\A i \in DOMAIN admissions :
             Cardinality(DequeuedFrom(admissions, admissions[i])) <= requests_per_minute)

\* C16 witness: the window is full of dequeues made at this very instant,
\* intents are still pending, and the limiter has just rejected: the
\* processor is in its backoff and the window is as the admissions left it.
C16_Witness ==
    /\ pc = "backoff"
    /\ wake = now + Backoff
    /\ tasks # <<>>
    /\ Len(admissions) = requests_per_minute
    /\ request_times = admissions
    /\ \A i \in DOMAIN admissions : admissions[i] = now

\* C17 (retry reports what it moved), as claimed.  With N >= 1 failed
\* entries, the count in the retry response equals N, the number of entries
\* the retry moved to the pending list, however many were already pending.
C17_RetryReportsMoved ==
    [][(retry_failed_tasks /\ failed_tasks # <<>>) =>
          /\ Len(tasks') - Len(tasks) = Len(failed_tasks)
          /\ ReportedMoved(response') = Len(failed_tasks)]_vars

\* The processor dequeues a well-formed create intent whose id is already a
\* key of the map it goes to: an earlier intent with that id was applied
\* and the record has not been deleted since.
Overwrites ==
    /\ Dequeues
    /\ WellFormed(tasks[1])
    /\ \/ tasks[1].type = "create_document" /\ tasks[1].data.id \in DOMAIN documents_db
       \/ tasks[1].type = "create_context" /\ tasks[1].data.id \in DOMAIN contexts_db

\* C18 (overwrite by id, last enqueued wins).  When the intent applied
\* carries an id already stored, the map keeps exactly the keys it had, the
\* record under that id becomes the one built from this intent, every other
\* record of both maps is unchanged, and the intents enqueued after it stay
\* pending behind it; so of two intents with one id the later one is applied
\* later and its record is the one that stays.
C18_LastWins ==
    [][Overwrites =>
          LET intent == tasks[1]
              k == intent.data.id
          IN  /\ tasks' = Tail(tasks)
              /\ intent.type = "create_document" =>
                    /\ DOMAIN documents_db' = DOMAIN documents_db
                    /\ documents_db'[k] = [id |-> k, content |-> intent.data.content,
                                           metadata |-> intent.data.metadata]
                    /\ \A o \in DOMAIN documents_db \ {k} : documents_db'[o] = documents_db[o]
                    /\ contexts_db' = contexts_db
              /\ intent.type = "create_context" =>
                    /\ DOMAIN contexts_db' = DOMAIN contexts_db
                    /\ contexts_db'[k] = [id |-> k, name |-> intent.data.name,
                                          documents |-> intent.data.documents,
                                          updated_at |-> intent.data.updated_at]
                    /\ \A o \in DOMAIN contexts_db \ {k} : contexts_db'[o] = contexts_db[o]
                    /\ documents_db' = documents_db]_vars

\* C18 witness: two Create Document requests were accepted, the processor
\* has dequeued twice, and the Store holds one document, with content "y",
\* which is the one the last Create Document returned.
C18_Witness ==
    /\ admissions = <<0, 60>>
    /\ requests = 2
    /\ tasks = <<>>
    /\ failed_tasks = <<>>
    /\ contexts_db = <<>>
    /\ DOMAIN documents_db = {"d1"}
    /\ documents_db["d1"].content = "y"
    /\ response.op = "create_document"
    /\ response.body = documents_db["d1"]

\* A handler has started and not yet returned.  For delete_document the
\* document is still in the Store while its id is being stripped from the
\* Contexts one by one; for retry_failed_tasks the failed entries are copied
\* to the pending list and still in the failed list; for update_context
\* failures are recorded and the Context is not yet stored.
InProgress == running.op \in {"delete_document", "retry_failed_tasks", "update_context"}

\* A request starts being served.
Begins ==
    \/ OtherRequest
    \/ \E document_id \in DocIds : delete_document_begin(document_id)
    \/ \E context_id \in CtxIds, updated_context \in ContextsAt(now) :
          update_context_begin(context_id, updated_context)
    \/ retry_failed_tasks_begin

\* C19 (direct operations are atomic with respect to the processor).  While
\* delete_document, update_context or retry_failed_tasks is between its
\* first statement and its return, the processor can take no step and no
\* request can start; the only steps are that handler's own, which leave
\* the processor and the limiter alone.  So every step of the processor and
\* every other request starts from a state with no handler half-way.
C19_Atomic ==
    /\ [](InProgress => ~ENABLED ProcessorStep)
    /\ [](InProgress => ~ENABLED Begins)
    /\ [][(ProcessorStep \/ Begins) => ~InProgress]_vars
    /\ [][InProgress =>
             /\ running'.op \in {running.op, "none"}
             /\ UNCHANGED <<pc, wake, request_times, admissions, now>>]_vars

\* C19 witness: retry_failed_tasks has copied the failed entries to the end
\* of the pending list and not yet emptied the failed list, while the
\* processor stands at the top of its loop and the limiter would admit.
C19_Witness ==
    /\ running.op = "retry_failed_tasks"
    /\ failed_tasks # <<>>
    /\ Len(tasks) >= Len(failed_tasks)
    /\ SubSeq(tasks, Len(tasks) - Len(failed_tasks) + 1, Len(tasks)) = failed_tasks
    /\ pc = "loop"
    /\ ~Limited(request_times, now)

\* C20 (records are keyed by their own id), as claimed.  In every reachable
\* state each Document stored under key k has id k and each Context stored
\* under key k has id k.
C20_KeyedByOwnId ==
    /\ \A k \in DOMAIN documents_db : documents_db[k].id = k
    /\ \A k \in DOMAIN contexts_db : contexts_db[k].id = k
====
